---- MODULE Spec2Model ----
(***************************************************************************)
(* Model of the sliding-puzzle solver src/src/wasm/advanced_solver.cpp:    *)
(* the board, the heuristics, the pattern-database builder, the IDA*       *)
(* searcher, the forward BFS fallback, the 5x5 parallel dispatcher, the    *)
(* 4x4 / 5x5 stage controllers and the solve_puzzle entry point.           *)
(*                                                                         *)
(* A board is a sequence of sz*sz bytes; cell index c (0-based, as in the  *)
(* source) is element c+1 of the sequence.                                 *)
(***************************************************************************)
EXTENDS Integers, Sequences, FiniteSets, TLC

VARIABLES
    arr,              \* solve_puzzle: the caller's input bytes
    sz,               \* solve_puzzle: the size argument
    env,              \* where the caller's buffers lie and what moves_out held
    out,              \* the cells of moves_out whose byte the call has set (cell -> byte)
    exc,              \* an exception has reached a catch block of solve_puzzle
    ret,              \* solve_puzzle's return value, meaningful when pc = "done"
    pc,               \* position of the calling thread
    start,            \* PuzzleState start of solve_puzzle
    cnt_oob,          \* validate_input indexed cnt outside 0..sz*sz-1
    cur,              \* solve_NxN: PuzzleState cur
    all_moves,        \* solve_NxN: all_moves
    locked,           \* solve_NxN: locked
    i,                \* solve_NxN: the stage-1 loop index
    lastres,          \* solve_NxN: the search result being consumed (res, res2, res3)
    ida,              \* the calling thread's running ida_star frame
    bfs,              \* the calling thread's running bibfs frame
    spawned,          \* solve_5x5: number of threads created
    joined,           \* solve_5x5: number of threads joined
    wpc,              \* solve_5x5: position of each worker thread
    wida,             \* solve_5x5: each worker's ida_star frame
    results,          \* solve_5x5: results[t]
    found,            \* solve_5x5: the atomic found flag
    pdb_4x4_stage1,   \* process-wide pattern databases
    pdb_5x5_stage1,
    pdb_5x5_stage2,
    tp                \* test_pdb_build / build_pdb call under test

vars == <<arr, sz, env, out, exc, ret, pc, start, cnt_oob, cur, all_moves, locked,
          i, lastres, ida, bfs, spawned, joined, wpc, wida, results, found,
          pdb_4x4_stage1, pdb_5x5_stage1, pdb_5x5_stage2, tp>>

(***************************************************************************)
(* Bounds of the model.                                                    *)
(***************************************************************************)
\* Input boards are taken up to this many blank moves away from the solved board
\* (5x5 boards, whose endgame runs four interleaved workers, up to MaxShuffle5).
MaxShuffle == 4
MaxShuffle5 == 2

\* Boards handed directly to ida_star / bibfs are taken up to this many blank
\* moves away from the solved board (2x2 boards up to twice as many, which
\* covers all twelve of them).
MaxShuffleSearch == 3
\* Random walks handed to apply_moves have up to this many moves.
MaxWalk == 4

\* climits
INT_MAX == 2147483647

Min(a, b) == IF a < b THEN a ELSE b
Abs(x) == IF x < 0 THEN -x ELSE x
Front(s) == SubSeq(s, 1, Len(s) - 1)

\* The values of a uint8_t
Bytes == 0..255

\* The value of an int member that no statement has assigned.  It stands for
\* every int; the model gives it no number, and an operation that reads it
\* draws the number (or the class of numbers that behave alike) itself.
Indeterminate == "indeterminate"

\* int division and remainder of the source: a/b truncates toward zero and
\* a%b takes the sign of a (b > 0).
CDiv(a, b) == IF a >= 0 THEN a \div b ELSE -((-a) \div b)
CMod(a, b) == a - b * CDiv(a, b)

(***************************************************************************)
(* Board model                                                             *)
(***************************************************************************)
\* const int dir4[4][2], indexed d = 0..3: U, D, L, R
dir4 == <<<<-1, 0>>, <<1, 0>>, <<0, -1>>, <<0, 1>>>>

\* The index the constructor's loop leaves in empty: the last i with tiles[i]==0.
\* With no 0 among the bytes the member is never assigned and keeps e0, the
\* value it had before the loop.
FindEmpty(tiles, n, e0) ==
    LET Z == {c \in 0..(n - 1) : tiles[c + 1] = 0}
    IN  IF Z = {} THEN e0 ELSE CHOOSE c \in Z : \A z \in Z : z <= c

\* PuzzleState(const uint8_t* arr, int sz)
PuzzleState(a, n, e0) ==
    [tiles |-> SubSeq(a, 1, n * n), size |-> n, empty |-> FindEmpty(a, n * n, e0)]

\* PuzzleState::isSolved
isSolved(state) ==
    LET n == state.size * state.size
    IN  /\ \A c \in 0..(n - 2) : state.tiles[c + 1] = c + 1
        /\ state.tiles[n] = 0

\* isSolved reads tiles[size*size-1] of an empty vector.
isSolved_oob(state) == state.size * state.size = 0

\* std::swap(t[a], t[b]) on 0-based cells
SwapCells(t, a, b) ==
    [k \in 1..Len(t) |-> IF k = a + 1 THEN t[b + 1]
                         ELSE IF k = b + 1 THEN t[a + 1] ELSE t[k]]

\* The child nxt of state for blank destination ni (swap, then nxt.empty = ni).
MoveBlank(state, ni) ==
    [state EXCEPT !.tiles = SwapCells(state.tiles, state.empty, ni), !.empty = ni]

\* int manhattan(const PuzzleState&)
manhattan(state) ==
    LET n == state.size
        D[c \in 0..(n * n)] ==
            IF c = 0 THEN 0
            ELSE LET v == state.tiles[c]
                     cell == c - 1
                 IN  IF v = 0 THEN D[c - 1]
                     ELSE D[c - 1]
                          + Abs(CDiv(v - 1, n) - CDiv(cell, n))
                          + Abs(CMod(v - 1, n) - CMod(cell, n))
    IN  D[n * n]

\* rotate90: res[c*sz+sz-1-r] = t[r*sz+c]
rotate90(t, n) ==
    [k \in 1..(n * n) |->
        LET idx == k - 1
            c == idx \div n
            r == n - 1 - (idx % n)
        IN  t[r * n + c + 1]]

\* reflect_h: res[r*sz+sz-1-c] = t[r*sz+c]
reflect_h(t, n) ==
    [k \in 1..(n * n) |->
        LET idx == k - 1
            r == idx \div n
            c == n - 1 - (idx % n)
        IN  t[r * n + c + 1]]

\* all_symmetries: the eight images, in the order the source pushes them
all_symmetries(t, n) ==
    LET r90 == rotate90(t, n)
        r180 == rotate90(r90, n)
        r270 == rotate90(r180, n)
    IN  <<t, r90, r180, r270,
          reflect_h(t, n), reflect_h(r90, n), reflect_h(r180, n), reflect_h(r270, n)>>

\* The goal layout: tiles 1..n*n-1 in row-major order, blank last.
Solved(n) == [k \in 1..(n * n) |-> IF k = n * n THEN 0 ELSE k]

(***************************************************************************)
(* Pattern database                                                        *)
(***************************************************************************)
\* unordered_map operator[] assignment: m[k] = v
MapPut(m, k, v) == [x \in (DOMAIN m) \cup {k} |-> IF x = k THEN v ELSE m[x]]

EmptyMap == [x \in {} |-> 0]

\* build_pdb's start layout: solved[i]=i+1 for i<ntiles, solved[sz*sz-1]=0,
\* every other cell left 0.
PdbStart(n, ntiles) ==
    [k \in 1..(n * n) |-> IF k <= ntiles /\ k # n * n THEN k % 256 ELSE 0]

\* "for(i<ntiles) if(nt[i]!=i+1) valid=false".  With ntiles >= sz*sz the last
\* cell of nt, which holds a byte other than sz*sz after every swap, has made
\* valid false whatever the reads past the end of nt give.
PdbValid(nt, ntiles) ==
    /\ ntiles <= Len(nt)
    /\ \A c \in 0..(ntiles - 1) : nt[c + 1] = c + 1

RECURSIVE PdbDirs(_, _, _, _, _, _, _, _)
\* The four-direction loop of build_pdb for the dequeued (tiles, depth);
\* returns the queue and the Seen set it leaves.
PdbDirs(n, ntiles, tiles, depth, empty, d, Q, Seen) ==
    IF d >= 4 THEN [Q |-> Q, Seen |-> Seen]
    ELSE
        LET nr == CDiv(empty, n) + dir4[d + 1][1]
            nc == CMod(empty, n) + dir4[d + 1][2]
            ni == nr * n + nc
        IN  IF nr < 0 \/ nr >= n \/ nc < 0 \/ nc >= n
            THEN PdbDirs(n, ntiles, tiles, depth, empty, d + 1, Q, Seen)
            ELSE
                LET nt == SwapCells(tiles, empty, ni)
                IN  IF ~PdbValid(nt, ntiles) \/ nt \in Seen
                    THEN PdbDirs(n, ntiles, tiles, depth, empty, d + 1, Q, Seen)
                    ELSE PdbDirs(n, ntiles, tiles, depth, empty, d + 1,
                                 Append(Q, [tiles |-> nt, depth |-> depth + 1]),
                                 Seen \cup {nt})

RECURSIVE PdbLoop(_, _, _, _, _, _)
\* while(!Q.empty()) of build_pdb
PdbLoop(n, ntiles, max_depth, Q, Seen, pdb) ==
    IF Q = <<>> THEN pdb
    ELSE
        LET head == Head(Q)
            pdb1 == MapPut(pdb, head.tiles, head.depth)
        IN  IF head.depth >= max_depth
            THEN PdbLoop(n, ntiles, max_depth, Tail(Q), Seen, pdb1)
            ELSE
                LET empty == FindEmpty(head.tiles, n * n, -1)
                    nx == PdbDirs(n, ntiles, head.tiles, head.depth, empty, 0,
                                  Tail(Q), Seen)
                IN  PdbLoop(n, ntiles, max_depth, nx.Q, nx.Seen, pdb1)

\* Mutant of build_pdb: the table receives the solved board at depth 0.
build_pdb_solved(n, ntiles, pdb, max_depth) == MapPut(pdb, Solved(n), 0)

\* build_pdb writes outside its vector "solved": "solved[i]=i+1" for an
\* i >= sz*sz (ntiles > sz*sz), or "solved[sz*sz-1]=0" on the empty vector
\* (sz*sz = 0).
build_pdb_oob(n, ntiles) == n * n = 0 \/ ntiles > n * n

\* void build_pdb(sz, ntiles, pdb, max_depth): the table it leaves in pdb when
\* it returns (with sz*sz = 0 it does not: the write goes through the null
\* data pointer of the empty vector)
build_pdb(n, ntiles, pdb, max_depth) ==
    LET solved == PdbStart(n, ntiles)
    IN  PdbLoop(n, ntiles, max_depth, <<[tiles |-> solved, depth |-> 0]>>,
                {solved}, pdb)

\* int pdb_heuristic(state, stage, sz)
pdb_heuristic(state, stage, n) ==
    LET key == state.tiles
    IN  IF n = 4 /\ stage = 1 /\ key \in DOMAIN pdb_4x4_stage1
        THEN pdb_4x4_stage1[key]
        ELSE IF n = 5 /\ stage = 1 /\ key \in DOMAIN pdb_5x5_stage1
        THEN pdb_5x5_stage1[key]
        ELSE IF n = 5 /\ stage = 2 /\ key \in DOMAIN pdb_5x5_stage2
        THEN pdb_5x5_stage2[key]
        ELSE manhattan(state)

(***************************************************************************)
(* IDA* searcher.  A frame S of ida_star holds its arguments and the       *)
(* locals the dfs lambda captures by reference: threshold, nodes, TT,      *)
(* path, found, fail_reason.  S.gen collects every child nxt the current   *)
(* iteration constructs (lines 245-247), pruned or not; S.cut collects the *)
(* values f the current iteration returns at "if(f>threshold) return f;".  *)
(***************************************************************************)
\* Mutant of IdaLockedSkip: the locked-cell test is missing.
IdaLockedSkip_never(lockedSet, ni) == FALSE

\* "if(locked.count(ni)) continue;" of ida_star
IdaLockedSkip(lockedSet, ni) == ni \in lockedSet

\* "if(prev_empty==ni) continue;"
IdaReversalSkip(prev_empty, ni) == prev_empty = ni

\* Mutant of MovedTile: the byte is read at the child's blank cell.
MovedTile_dest(state, nxt) == nxt.tiles[nxt.empty + 1]

\* The byte pushed on path for the child nxt of state: nxt.tiles[state.empty]
MovedTile(state, nxt) == nxt.tiles[state.empty + 1]

\* Mutant of PathPop: the pop after a failed child is missing.
PathPop_keep(path) == path

\* "path.pop_back();"
PathPop(path) == Front(path)

\* Symmetry pruning: some image of nxt.tiles is in the transposition table.
\* PuzzleState equality and hashing are over tiles alone, so TT holds tiles.
SymmPruned(TT, nxt, n) ==
    LET syms == all_symmetries(nxt.tiles, n)
    IN  \E k \in 1..Len(syms) : syms[k] \in TT

\* h of the dfs lambda and of the initial threshold
IdaH(state, stage, n) ==
    IF stage = 1 THEN pdb_heuristic(state, stage, n) ELSE manhattan(state)

\* Mutant of IdaGoal: the test is on h alone and off by one.
IdaGoal_loose(state, stage, h) == h <= 1

\* The goal test of the dfs lambda
IdaGoal(state, stage, h) ==
    (stage = 2 /\ isSolved(state)) \/ (stage = 1 /\ h = 0)

RECURSIVE dfs(_, _, _, _)
RECURSIVE dfsDirs(_, _, _, _, _, _)

\* The dfs lambda: returns the frame it leaves and its return value t.
dfs(S, state, g, prev_empty) ==
    LET S1 == [S EXCEPT !.nodes = @ + 1]
    IN  IF S1.nodes > S1.node_limit
        THEN [S |-> [S1 EXCEPT !.fail_reason = "node_limit"], t |-> INT_MAX]
        ELSE
            LET h == IdaH(state, S1.stage, S1.sz)
                f == g + h
            IN  IF f > S1.threshold
                THEN [S |-> [S1 EXCEPT !.cut = @ \cup {f}], t |-> f]
                ELSE IF IdaGoal(state, S1.stage, h)
                THEN [S |-> [S1 EXCEPT !.found = TRUE], t |-> -1]
                ELSE dfsDirs([S1 EXCEPT !.TT = @ \cup {state.tiles}],
                             state, g, prev_empty, 0, INT_MAX)

\* The for(d) loop of the dfs lambda from direction d on.
dfsDirs(S, state, g, prev_empty, d, min_threshold) ==
    IF d >= 4 THEN [S |-> S, t |-> min_threshold]
    ELSE
        LET n == S.sz
            nr == CDiv(state.empty, n) + dir4[d + 1][1]
            nc == CMod(state.empty, n) + dir4[d + 1][2]
            ni == nr * n + nc
        IN  IF nr < 0 \/ nr >= n \/ nc < 0 \/ nc >= n
            THEN dfsDirs(S, state, g, prev_empty, d + 1, min_threshold)
            ELSE IF IdaLockedSkip(S.locked, ni)
            THEN dfsDirs(S, state, g, prev_empty, d + 1, min_threshold)
            ELSE IF IdaReversalSkip(prev_empty, ni)
            THEN dfsDirs(S, state, g, prev_empty, d + 1, min_threshold)
            ELSE
                LET nxt == MoveBlank(state, ni)
                    Sg == [S EXCEPT !.gen = @ \cup {nxt}]
                IN  IF SymmPruned(Sg.TT, nxt, n)
                    THEN dfsDirs(Sg, state, g, prev_empty, d + 1, min_threshold)
                    ELSE
                        LET res == dfs([Sg EXCEPT !.path = Append(@, MovedTile(state, nxt))],
                                       nxt, g + 1, state.empty)
                        IN  IF res.S.found THEN [S |-> res.S, t |-> -1]
                            ELSE dfsDirs([res.S EXCEPT !.path = PathPop(@)],
                                         state, g, prev_empty, d + 1,
                                         Min(res.t, min_threshold))

\* threshold's initial value
InitialThreshold(st, stage, n) == IdaH(st, stage, n)

\* ida_star up to its while(true): the frame of a call with these arguments
ida_enter(st, n, max_depth, stage, node_limit, time_limit_ms, lockedSet) ==
    [start |-> st, sz |-> n, max_depth |-> max_depth, stage |-> stage,
     node_limit |-> node_limit, time_limit_ms |-> time_limit_ms,
     locked |-> lockedSet,
     threshold |-> InitialThreshold(st, stage, n),
     nodes |-> 0, TT |-> {}, path |-> <<>>, found |-> FALSE, fail_reason |-> "",
     gen |-> {}, cut |-> {}, iter |-> 0, pc |-> "loop"]

\* Mutant of ida_loop_head: TT.clear() is missing.
ida_loop_head_noclear(S) ==
    [S EXCEPT !.nodes = 0, !.gen = {}, !.cut = {}, !.iter = @ + 1, !.pc = "dfs"]

\* Head of an iteration: nodes=0; TT.clear();
ida_loop_head(S) ==
    [S EXCEPT !.nodes = 0, !.TT = {}, !.gen = {}, !.cut = {}, !.iter = @ + 1,
              !.pc = "dfs"]

\* Rest of an iteration: r=dfs(start,0,-1) and the three exits.  late is the
\* outcome of the wall-clock comparison "now-start_time > time_limit_ms".
ida_loop_body(S, late) ==
    LET res == dfs(S, S.start, 0, -1)
        S1 == res.S
        r == res.t
    IN  IF S1.found THEN [S1 EXCEPT !.pc = "ret"]
        ELSE IF r = INT_MAX \/ S1.nodes > S1.node_limit
        THEN [S1 EXCEPT !.fail_reason = "search_limit", !.pc = "ret"]
        ELSE IF late
        THEN [S1 EXCEPT !.threshold = r, !.fail_reason = "timeout", !.pc = "ret"]
        ELSE [S1 EXCEPT !.threshold = r, !.pc = "loop"]

\* "return {path,found,nodes,(int)path.size(),fail_reason};"
ida_result(S) ==
    [moves |-> S.path, success |-> S.found, nodes |-> S.nodes,
     length |-> Len(S.path), fail_reason |-> S.fail_reason]

\* A frame that is not running.
NoFrame == [pc |-> "idle"]

(***************************************************************************)
(* Forward BFS ("bibfs")                                                   *)
(***************************************************************************)
\* "if(locked.count(ni)) continue;" of bibfs
BfsLockedSkip(lockedSet, ni) == ni \in lockedSet

\* Mutant of BfsDepthStop: the comparison is strict.
BfsDepthStop_late(moves, max_depth) == Len(moves) > max_depth

\* "if((int)moves.size()>=max_depth) continue;"
BfsDepthStop(moves, max_depth) == Len(moves) >= max_depth

RECURSIVE BfsDirs(_, _, _, _)
\* The for(d) loop of bibfs for the dequeued (state, moves).
BfsDirs(B, state, moves, d) ==
    IF d >= 4 THEN B
    ELSE
        LET n == B.sz
            nr == CDiv(state.empty, n) + dir4[d + 1][1]
            nc == CMod(state.empty, n) + dir4[d + 1][2]
            ni == nr * n + nc
        IN  IF nr < 0 \/ nr >= n \/ nc < 0 \/ nc >= n
            THEN BfsDirs(B, state, moves, d + 1)
            ELSE IF BfsLockedSkip(B.locked, ni)
            THEN BfsDirs(B, state, moves, d + 1)
            ELSE
                LET nxt == MoveBlank(state, ni)
                IN  IF nxt.tiles \in B.Vis
                    THEN BfsDirs(B, state, moves, d + 1)
                    ELSE BfsDirs([B EXCEPT
                                     !.Vis = @ \cup {nxt.tiles},
                                     !.Q = Append(@, [state |-> nxt,
                                                      moves |-> Append(moves, MovedTile(state, nxt))])],
                                 state, moves, d + 1)

\* bibfs up to its while loop
bibfs_enter(st, n, max_depth, stage, node_limit, lockedSet) ==
    [start |-> st, sz |-> n, max_depth |-> max_depth, stage |-> stage,
     node_limit |-> node_limit, locked |-> lockedSet,
     goal |-> [tiles |-> Solved(n), size |-> n, empty |-> n * n - 1],
     Q |-> <<[state |-> st, moves |-> <<>>]>>, Vis |-> {st.tiles}, nodes |-> 0,
     pc |-> "loop",
     res |-> [moves |-> <<>>, success |-> FALSE, nodes |-> 0, length |-> 0,
              fail_reason |-> ""]]

\* One evaluation of the while condition and, when it holds, one iteration.
bibfs_step(B) ==
    IF ~(B.Q # <<>> /\ B.nodes < B.node_limit)
    THEN [B EXCEPT !.pc = "ret",
                   !.res = [moves |-> <<>>, success |-> FALSE, nodes |-> B.nodes,
                            length |-> 0, fail_reason |-> "failed"]]
    ELSE
        LET item == Head(B.Q)
            B1 == [B EXCEPT !.Q = Tail(@), !.nodes = @ + 1]
        IN  IF item.state.tiles = B1.goal.tiles
            THEN [B1 EXCEPT !.pc = "ret",
                            !.res = [moves |-> item.moves, success |-> TRUE,
                                     nodes |-> B1.nodes, length |-> Len(item.moves),
                                     fail_reason |-> ""]]
            ELSE IF BfsDepthStop(item.moves, B1.max_depth) THEN B1
            ELSE BfsDirs(B1, item.state, item.moves, 0)

(***************************************************************************)
(* Move application and validation                                         *)
(***************************************************************************)
\* "for(j) if(state.tiles[j]==mv) from=j;": the last cell holding mv, -1 if none
FindTile(tiles, n, mv) ==
    LET Z == {c \in 0..(n - 1) : tiles[c + 1] = mv}
    IN  IF Z = {} THEN -1 ELSE CHOOSE c \in Z : \A z \in Z : z <= c

RECURSIVE apply_moves_stale(_, _)
\* Mutant of apply_moves: state.empty is not updated after the swap.
apply_moves_stale(state, moves) ==
    IF moves = <<>> THEN state
    ELSE
        LET from == FindTile(state.tiles, state.size * state.size, Head(moves))
        IN  apply_moves_stale(
                [state EXCEPT !.tiles = SwapCells(state.tiles, state.empty, from)],
                Tail(moves))

RECURSIVE apply_moves_noswap(_, _)
\* Mutant of apply_moves: the swap is missing, only state.empty is updated.
apply_moves_noswap(state, moves) ==
    IF moves = <<>> THEN state
    ELSE
        LET from == FindTile(state.tiles, state.size * state.size, Head(moves))
        IN  apply_moves_noswap([state EXCEPT !.empty = from], Tail(moves))

RECURSIVE apply_moves(_, _)
\* void apply_moves(PuzzleState& state, moves): the state it leaves
apply_moves(state, moves) ==
    IF moves = <<>> THEN state
    ELSE
        LET from == FindTile(state.tiles, state.size * state.size, Head(moves))
        IN  apply_moves(MoveBlank(state, from), Tail(moves))

\* bool validate_input(const PuzzleState&) when every byte indexes cnt in range
validate_input(s) ==
    LET n == s.size * s.size
        cnt == [v \in 0..(n - 1) |-> Cardinality({c \in 1..n : s.tiles[c] = v})]
    IN  \A v \in 0..(n - 1) : cnt[v] = 1

\* Some "cnt[s.tiles[i]]++" of validate_input indexes cnt outside 0..sz*sz-1.
validate_input_oob(s) ==
    LET n == s.size * s.size
    IN  \E c \in 1..n : s.tiles[c] >= n

\* sizeof(int), the element size of "std::vector<int> cnt"
IntBytes == 4

\* The caller's memory as validate_input's stray increments see it.  Addresses
\* are counted in bytes from the first byte of cnt.  E.arr_at and E.out_at are
\* the addresses of arr[0] and moves_out[0], E.out_len is the capacity of
\* moves_out and E.fill the byte every cell of moves_out held before the call.
\* FarOffset is an address no "cnt[v]++" reaches, v being a byte.
FarOffset == IntBytes * 256

\* The capacity of the output buffer the caller provides: 200 bytes for a
\* 4x4 call and 400 bytes for a 5x5 call; a call of another size is given the
\* 4x4 buffer.
MovesCap4 == 200
MovesCap5 == 400
MovesCap(n) == IF n = 5 THEN MovesCap5 ELSE MovesCap4

\* The address of a heap block allocated right after cnt: the IntBytes*n*n
\* bytes of cnt and the allocator's 8-byte header, rounded up to its granule
\* of 16 bytes; the allocator's smallest block has 32 bytes.
BlockAfterCnt(n) ==
    LET b == 16 * ((IntBytes * n * n + 8 + 15) \div 16)
    IN  IF b < 32 THEN 32 ELSE b

\* The byte in cell c of moves_out, o being the cells set during the call.
OutByte(o, c, E) == IF c \in DOMAIN o THEN o[c] ELSE E.fill

RECURSIVE IncAt(_, _, _, _)
\* "++" on the little-endian int at address A, from its byte j on, in memory
\* M = [arr, out].  A byte of the int that lies in neither buffer is not the
\* caller's: either it absorbed the increment, or it held 255 and the carry
\* goes on to the next byte.
IncAt(M, A, j, E) ==
    IF j >= IntBytes THEN {M}
    ELSE
        LET ca == A + j - E.arr_at
            co == A + j - E.out_at
        IN  IF ca \in 0..(Len(M.arr) - 1)
            THEN IF M.arr[ca + 1] = 255
                 THEN IncAt([M EXCEPT !.arr[ca + 1] = 0], A, j + 1, E)
                 ELSE {[M EXCEPT !.arr[ca + 1] = @ + 1]}
            ELSE IF co \in 0..(E.out_len - 1)
            THEN IF OutByte(M.out, co, E) = 255
                 THEN IncAt([M EXCEPT !.out = MapPut(@, co, 0)], A, j + 1, E)
                 ELSE {[M EXCEPT !.out = MapPut(@, co, OutByte(M.out, co, E) + 1)]}
            ELSE {M} \cup IncAt(M, A, j + 1, E)

RECURSIVE StrayIncs(_, _, _, _)
\* "for(i) cnt[s.tiles[i]]++" from cell c on, as far as it leaves cnt: one
\* increment of the int at cnt + IntBytes*v for every byte v >= sz*sz, in
\* cell order.  Ms is the set of memories the earlier increments can have left.
StrayIncs(Ms, tiles, c, E) ==
    IF c >= Len(tiles) THEN Ms
    ELSE IF tiles[c + 1] < Len(tiles) THEN StrayIncs(Ms, tiles, c + 1, E)
    ELSE StrayIncs(UNION {IncAt(M, IntBytes * tiles[c + 1], 0, E) : M \in Ms},
                   tiles, c + 1, E)

\* One pass of validate_solution's loop on the run r for the move byte mv:
\* "from=-1; for(j) if(s.tiles[j]==mv) from=j; swap(s.tiles[s.empty],
\* s.tiles[from]); s.empty=from;".  r.tiles are the bytes of the vector,
\* r.pre is the byte just before them once a swap has touched it (-1 until
\* then, when it is any byte), r.ub tells that a swap indexed outside the
\* vector.  A blank index below -1 or above the last cell reads a byte that
\* is anything and is not read again.
ValidateStep(r, mv) ==
    LET n == Len(r.tiles)
        from == FindTile(r.tiles, n, mv)
        e == r.empty
        Board == 0..(n - 1)
        Pre == IF r.pre >= 0 THEN {r.pre} ELSE Bytes
    IN  IF e \in Board /\ from \in Board
        THEN {[r EXCEPT !.tiles = SwapCells(r.tiles, e, from), !.empty = from]}
        ELSE IF e = -1 /\ from = -1
        THEN {[r EXCEPT !.ub = TRUE]}
        ELSE IF e \in Board
        THEN {[r EXCEPT !.tiles[e + 1] = h, !.pre = r.tiles[e + 1],
                        !.empty = -1, !.ub = TRUE] : h \in Pre}
        ELSE IF e = -1
        THEN {[r EXCEPT !.tiles[from + 1] = h, !.pre = r.tiles[from + 1],
                        !.empty = from, !.ub = TRUE] : h \in Pre}
        ELSE IF from = -1
        THEN {[r EXCEPT !.pre = h, !.empty = -1, !.ub = TRUE] : h \in Bytes}
        ELSE {[r EXCEPT !.tiles[from + 1] = h, !.empty = from, !.ub = TRUE] :
                 h \in Bytes}

RECURSIVE ValidateSteps(_, _)
\* "for(i<n_moves)" of validate_solution on the set R of runs
ValidateSteps(R, moves) ==
    IF moves = <<>> THEN R
    ELSE ValidateSteps(UNION {ValidateStep(r, Head(moves)) : r \in R}, Tail(moves))

\* The numbers an unassigned s.empty is drawn from: every cell of the board,
\* the cell before it, and sz*sz for every other int.
EmptyClasses(n) == (-1)..(n * n)

\* validate_solution: the runs of its loop.  For a board without a 0 byte
\* s.empty is unassigned when the loop starts.
validate_solution_runs(a, n, moves, n_moves) ==
    LET E0 == IF \E c \in 1..(n * n) : a[c] = 0 THEN {-1} ELSE EmptyClasses(n)
    IN  ValidateSteps({[tiles |-> SubSeq(a, 1, n * n), size |-> n,
                        empty |-> FindEmpty(a, n * n, e0), pre |-> -1, ub |-> FALSE] :
                          e0 \in E0},
                      SubSeq(moves, 1, n_moves))

\* Some swap of validate_solution indexes s.tiles outside the vector (a move
\* byte that is on no cell, or an unassigned s.empty): the call can end in a
\* trap there or later, when the vector is released.
validate_solution_ub(a, n, moves, n_moves) ==
    \/ n * n = 0
    \/ \E r \in validate_solution_runs(a, n, moves, n_moves) : r.ub

\* int validate_solution(arr, sz, moves, n_moves): the values it can return.
\* One value when every swap stays inside the vector; with sz*sz = 0 the
\* closing isSolved reads outside the empty vector.
validate_solution(a, n, moves, n_moves) ==
    IF n * n = 0 THEN {0, 1}
    ELSE {IF isSolved(r) THEN 1 ELSE 0 :
             r \in validate_solution_runs(a, n, moves, n_moves)}

(***************************************************************************)
(* Program constants of the stage controllers                              *)
(***************************************************************************)
PrefixTiles4 == 6
PrefixTiles5 == 12
PdbCap4 == 14
PdbCap5 == 16
Stage1Depth4 == 18
Stage1Depth5 == 25
Stage1NodeLimit4 == 300000
Stage1NodeLimit5 == 250000
Stage1TimeLimit4 == 4000
Stage1TimeLimit5 == 3000
EndgameDepth4 == 40
EndgameDepth5 == 60
EndgameNodeLimit4 == 800000
EndgameNodeLimit5 == 400000
EndgameTimeLimit4 == 16000
EndgameTimeLimit5 == 9000
FallbackNodeLimit4 == 200000
FallbackNodeLimit5 == 400000
NumWorkers == 4
TestPdbCap == 12

PrefixTiles(n) == IF n = 4 THEN PrefixTiles4 ELSE PrefixTiles5
Workers == 0..(NumWorkers - 1)

\* "for(i<all_moves.size()) moves_out[i]=all_moves[i];" on the written cells o
WriteOut(o, moves) ==
    [c \in (DOMAIN o) \cup (0..(Len(moves) - 1)) |->
        IF c < Len(moves) THEN moves[c + 1] ELSE o[c]]

\* ThreadResult() as std::vector<ThreadResult> results(4) value-initialises it
NoResult ==
    [moves |-> <<>>, success |-> FALSE, nodes |-> 0, length |-> 0, fail_reason |-> ""]

\* No build_pdb call under test.
NoPdbCall == [done |-> TRUE, sz |-> 0, ntiles |-> 0, max_depth |-> 0, pdb |-> EmptyMap]

(***************************************************************************)
(* Input boards                                                            *)
(***************************************************************************)
\* The cells the blank at cell e of an n x n board can move to (shuffle_state's
\* opt); e = -1, the value of empty for an array without a 0 byte, gives r = 0,
\* c = -1 and the single cell 0.
BlankNeighbours(n, e) ==
    {nr * n + nc : <<nr, nc>> \in
        {<<CDiv(e, n) + dir4[d][1], CMod(e, n) + dir4[d][2]>> : d \in 1..4}
            \cap ((0..(n - 1)) \X (0..(n - 1)))}

\* A pass of shuffle_state's loop on t divides by sz = 0, or swaps arr[-1]
\* with a cell of the array (no 0 byte in t, line 467): the pass can end in a
\* trap.
ShuffleOnce_ub(t, n) ==
    IF n = 0 THEN TRUE
    ELSE FindEmpty(t, n * n, -1) = -1 /\ BlankNeighbours(n, -1) # {}

\* One pass of shuffle_state's loop: the arrays it can leave.  With a blank
\* these are the layouts one blank move away from t, or t itself when no
\* cell is next to the blank ("if(opt.empty()) continue;").  Without a 0 byte
\* the pass swaps cell 0 with the byte before the array, which is any byte.
ShuffleOnce(t, n) ==
    IF n = 0 THEN {t}
    ELSE
        LET e == FindEmpty(t, n * n, -1)
            opt == BlankNeighbours(n, e)
        IN  IF opt = {} THEN {t}
            ELSE IF e = -1 THEN {[t EXCEPT ![ni + 1] = h] : ni \in opt, h \in Bytes}
            ELSE {SwapCells(t, e, ni) : ni \in opt}

RECURSIVE Shuffled(_, _)
\* The layouts shuffle_state can leave after at most k swaps from the solved board.
Shuffled(n, k) ==
    IF k = 0 THEN {Solved(n)}
    ELSE LET R == Shuffled(n, k - 1)
         IN  R \cup UNION {ShuffleOnce(t, n) : t \in R}

\* 4x4, six moves from solved, Manhattan distance 4; tiles 1..6 in place.
Board4Endgame == <<1, 2, 3, 4, 5, 6, 11, 7, 9, 10, 8, 12, 13, 14, 15, 0>>
\* 4x4, seven moves from solved, Manhattan distance 5; tile 3 out of place.
Board4Stage1 == <<1, 2, 7, 3, 5, 6, 4, 8, 9, 10, 11, 0, 13, 14, 15, 12>>
\* 5x5, six moves from solved, Manhattan distance 4; tiles 1..12 in place.
Board5Endgame ==
    <<1, 2, 3, 4, 5, 6, 7, 8, 9, 10, 11, 12, 13, 19, 14, 16, 17, 18, 15, 20,
      21, 22, 23, 24, 0>>
\* 5x5, seven moves from solved, Manhattan distance 5; tile 9 out of place.
Board5Stage1 ==
    <<1, 2, 3, 4, 5, 6, 7, 8, 14, 9, 11, 12, 13, 10, 15, 16, 17, 18, 19, 0,
      21, 22, 23, 24, 20>>

ValidBoards(n) ==
    Shuffled(n, IF n = 5 THEN MaxShuffle5 ELSE MaxShuffle)
        \cup (IF n = 4 THEN {Board4Endgame, Board4Stage1}
              ELSE IF n = 5 THEN {Board5Endgame, Board5Stage1} ELSE {})

\* Inputs that are not permutations of 0..n*n-1: a duplicated tile, a missing
\* blank, a byte >= n*n, two bytes >= n*n (different, equal).
\* The byte v for which cnt[v] is the first int of the block after cnt.
NextBlockByte(n) == BlockAfterCnt(n) \div IntBytes

InvalidBoards(n) ==
    ({[Solved(n) EXCEPT ![c] = v] : c \in {1, n * n}, v \in {1, n * n - 1, n * n, 255}}
        \ {Solved(n)})
    \cup {[Solved(n) EXCEPT ![1] = NextBlockByte(n)]}
    \cup (IF n >= 2
          THEN {[Solved(n) EXCEPT ![1] = 255, ![2] = v] : v \in {254, 255}}
               \cup {[Solved(n) EXCEPT ![1] = NextBlockByte(n), ![2] = v] :
                        v \in {NextBlockByte(n), NextBlockByte(n) + 1}}
          ELSE {})

Sizes == {1, 2, 3, 4, 5, 6}

\* Buffers out of the reach of every stray increment, moves_out holding zeros.
FarEnv(n) ==
    [fill |-> 0, out_at |-> FarOffset, out_len |-> MovesCap(n), arr_at |-> FarOffset]

\* Where the caller's buffers can lie for an n x n call: both out of reach;
\* moves_out in the block after cnt, at its start or one byte in; arr such
\* that its last IntBytes cells are the int "cnt[255]".
Layouts(n) ==
    {[out_at |-> FarOffset, arr_at |-> FarOffset],
     [out_at |-> BlockAfterCnt(n), arr_at |-> FarOffset],
     [out_at |-> BlockAfterCnt(n) + 1, arr_at |-> FarOffset],
     [out_at |-> FarOffset, arr_at |-> IntBytes * 255 - (n * n - IntBytes)]}

\* What moves_out holds before the call: a sample of the byte values with
\* the one whose increment carries.
FillBytes == {0, 7, 238, 255}

\* The environments of a call: those that differ in what a stray increment
\* does, for the inputs that make one.
Envs(b, n) ==
    IF \A c \in 1..(n * n) : b[c] < n * n THEN {FarEnv(n)}
    ELSE {[fill |-> f, out_at |-> L.out_at, out_len |-> MovesCap(n), arr_at |-> L.arr_at] :
             f \in FillBytes, L \in Layouts(n)}

\* The calls of the model: the boards above for every size, and the call
\* with size 0.
Inputs ==
    UNION {UNION {{[arr |-> b, sz |-> n, env |-> E] : E \in Envs(b, n)} :
                     b \in ValidBoards(n) \cup InvalidBoards(n)} :
              n \in Sizes}
        \cup {[arr |-> <<>>, sz |-> 0, env |-> FarEnv(0)]}

(***************************************************************************)
(* solve_puzzle                                                            *)
(***************************************************************************)
Init ==
    /\ \E in \in Inputs : arr = in.arr /\ sz = in.sz /\ env = in.env
    /\ out = EmptyMap
    /\ exc = FALSE
    /\ ret = 0
    /\ pc = "call"
    /\ start = NoFrame
    /\ cnt_oob = FALSE
    /\ cur = NoFrame
    /\ all_moves = <<>>
    /\ locked = {}
    /\ i = 0
    /\ lastres = NoResult
    /\ ida = NoFrame
    /\ bfs = NoFrame
    /\ spawned = 0
    /\ joined = 0
    /\ wpc = [t \in Workers |-> "idle"]
    /\ wida = [t \in Workers |-> NoFrame]
    /\ results = [t \in Workers |-> NoResult]
    /\ found = FALSE
    /\ pdb_4x4_stage1 = EmptyMap
    /\ pdb_5x5_stage1 = EmptyMap
    /\ pdb_5x5_stage2 = EmptyMap
    /\ tp = NoPdbCall

ioVars == <<arr, sz, env>>
pdbVars == <<pdb_4x4_stage1, pdb_5x5_stage1, pdb_5x5_stage2>>
solveVars == <<cur, all_moves, locked, i, lastres>>
workerVars == <<spawned, joined, wpc, wida, results, found>>

\* "return v;" from solve_puzzle
Return(v) == pc' = "done" /\ ret' = v

\* solve_puzzle up to the call of solve_4x4 / solve_5x5.  For an array
\* without a 0 byte start.empty stays unassigned; no statement reads it, the
\* call returns -1 from validate_input.  With sz = 0 isSolved reads outside
\* the empty vector: the read traps, or gives either answer.  An input byte
\* v >= sz*sz makes
\* validate_input increment the int at cnt + IntBytes*v, outside cnt.  The
\* access traps, or the call goes on to "return -1" and the increments have
\* landed where the environment puts the addresses: in cells of moves_out,
\* in arr, or in memory of neither.
SolvePuzzleEntry ==
    /\ pc = "call"
    /\ start' = PuzzleState(arr, sz, Indeterminate)
    /\ IF validate_input_oob(start')
       THEN /\ cnt_oob' = TRUE
            /\ \/ pc' = "trap" /\ ret' = ret /\ UNCHANGED <<arr, out>>
               \/ \E M \in StrayIncs({[arr |-> arr, out |-> out]}, start'.tiles, 0, env) :
                     /\ Return(-1)
                     /\ arr' = M.arr
                     /\ out' = M.out
       ELSE /\ cnt_oob' = FALSE
            /\ UNCHANGED <<arr, out>>
            /\ IF ~validate_input(start') THEN Return(-1)
               ELSE IF isSolved_oob(start')
               THEN \/ pc' = "trap" /\ ret' = ret
                    \/ Return(0)
                    \/ Return(-1)
               ELSE IF isSolved(start') THEN Return(0)
               ELSE IF sz = 4 \/ sz = 5 THEN pc' = "solve" /\ ret' = ret
               ELSE Return(-1)
    /\ UNCHANGED <<sz, env, exc, solveVars, ida, bfs, workerVars, pdbVars, tp>>

\* solve_4x4 / solve_5x5 up to the stage-1 loop
SolveEnter ==
    /\ pc = "solve"
    /\ all_moves' = <<>>
    /\ cur' = start
    /\ locked' = {}
    /\ i' = 0
    /\ IF sz = 4
       THEN /\ pdb_4x4_stage1' =
                 IF pdb_4x4_stage1 = EmptyMap
                 THEN build_pdb(4, PrefixTiles4, pdb_4x4_stage1, PdbCap4)
                 ELSE pdb_4x4_stage1
            /\ UNCHANGED pdb_5x5_stage1
       ELSE /\ pdb_5x5_stage1' =
                 IF pdb_5x5_stage1 = EmptyMap
                 THEN build_pdb(5, PrefixTiles5, pdb_5x5_stage1, PdbCap5)
                 ELSE pdb_5x5_stage1
            /\ UNCHANGED pdb_4x4_stage1
    /\ pc' = "stage1"
    /\ UNCHANGED <<ioVars, exc, out, ret, start, cnt_oob, lastres, ida, bfs, workerVars,
                   pdb_5x5_stage2, tp>>

\* Stage-1 loop, tile already in place: "locked.insert(goal_idx); continue;"
Stage1Skip ==
    /\ pc = "stage1"
    /\ i < PrefixTiles(sz)
    /\ cur.tiles[i + 1] = i + 1
    /\ locked' = locked \cup {i}
    /\ i' = i + 1
    /\ UNCHANGED <<ioVars, exc, out, ret, pc, start, cnt_oob, cur, all_moves, lastres,
                   ida, bfs, workerVars, pdbVars, tp>>

\* Stage-1 loop, tile not in place: the call of ida_star with stage 1
Stage1Call ==
    /\ pc = "stage1"
    /\ i < PrefixTiles(sz)
    /\ cur.tiles[i + 1] # i + 1
    /\ ida' = IF sz = 4
              THEN ida_enter(cur, 4, Stage1Depth4, 1, Stage1NodeLimit4,
                             Stage1TimeLimit4, locked)
              ELSE ida_enter(cur, 5, Stage1Depth5, 1, Stage1NodeLimit5,
                             Stage1TimeLimit5, locked)
    /\ pc' = "stage1_search"
    /\ UNCHANGED <<ioVars, exc, out, ret, start, cnt_oob, solveVars, bfs, workerVars,
                   pdbVars, tp>>

\* The calling thread's ida_star: head of a while(true) iteration
IdaLoopHead ==
    /\ ida.pc = "loop"
    /\ ida' = ida_loop_head(ida)
    /\ UNCHANGED <<ioVars, exc, out, ret, pc, start, cnt_oob, solveVars, bfs, workerVars,
                   pdbVars, tp>>

\* The calling thread's ida_star: the dfs of the iteration and its exits
IdaLoopBody ==
    /\ ida.pc = "dfs"
    /\ \E late \in BOOLEAN : ida' = ida_loop_body(ida, late)
    /\ UNCHANGED <<ioVars, exc, out, ret, pc, start, cnt_oob, solveVars, bfs, workerVars,
                   pdbVars, tp>>

\* Mutant of Stage1Failed: the result's success flag is not looked at.
Stage1Failed_never(res) == FALSE

\* "if(!res.success)" of the stage-1 loop
Stage1Failed(res) == ~res.success

\* Stage-1 loop after the search returned
Stage1Return ==
    /\ pc = "stage1_search"
    /\ ida.pc = "ret"
    /\ LET res == ida_result(ida)
       IN  /\ lastres' = res
           /\ IF Stage1Failed(res)
              THEN /\ Return(-1)
                   /\ UNCHANGED <<cur, all_moves, locked, i>>
              ELSE /\ cur' = apply_moves(cur, res.moves)
                   /\ all_moves' = all_moves \o res.moves
                   /\ locked' = locked \cup {i}
                   /\ i' = i + 1
                   /\ pc' = "stage1"
                   /\ ret' = ret
    /\ ida' = NoFrame
    /\ UNCHANGED <<ioVars, exc, out, start, cnt_oob, bfs, workerVars, pdbVars, tp>>

\* solve_4x4: "auto res2=ida_star(cur,sz,40,2,800000,16000,locked);"
EndgameCall ==
    /\ pc = "stage1"
    /\ sz = 4
    /\ i >= PrefixTiles4
    /\ ida' = ida_enter(cur, 4, EndgameDepth4, 2, EndgameNodeLimit4,
                        EndgameTimeLimit4, locked)
    /\ pc' = "endgame_search"
    /\ UNCHANGED <<ioVars, exc, out, ret, start, cnt_oob, solveVars, bfs, workerVars,
                   pdbVars, tp>>

\* A successful search result res ends the solve: apply, append, copy out, return.
Emit(res) ==
    /\ cur' = apply_moves(cur, res.moves)
    /\ all_moves' = all_moves \o res.moves
    /\ out' = WriteOut(out, all_moves')
    \* solve_puzzle: "if(r>0) return r; return -1;"
    /\ Return(IF Len(all_moves') > 0 THEN Len(all_moves') ELSE -1)

\* solve_4x4 after res2: success ends the solve, failure calls bibfs
EndgameReturn ==
    /\ pc = "endgame_search"
    /\ ida.pc = "ret"
    /\ LET res2 == ida_result(ida)
       IN  /\ lastres' = res2
           /\ IF res2.success
              THEN /\ Emit(res2)
                   /\ bfs' = bfs
              ELSE /\ bfs' = bibfs_enter(cur, 4, EndgameDepth4, 2,
                                         FallbackNodeLimit4, locked)
                   /\ pc' = "fallback"
                   /\ UNCHANGED <<cur, all_moves, out, ret>>
    /\ ida' = NoFrame
    /\ UNCHANGED <<ioVars, exc, start, cnt_oob, locked, i, workerVars, pdbVars, tp>>

\* bibfs: one pass of its while loop
BfsStep ==
    /\ bfs.pc = "loop"
    /\ bfs' = bibfs_step(bfs)
    /\ UNCHANGED <<ioVars, exc, out, ret, pc, start, cnt_oob, solveVars, ida, workerVars,
                   pdbVars, tp>>

\* solve_4x4 / solve_5x5 after res3
FallbackReturn ==
    /\ pc = "fallback"
    /\ bfs.pc = "ret"
    /\ lastres' = bfs.res
    /\ IF bfs.res.success
       THEN Emit(bfs.res)
       ELSE Return(-1) /\ UNCHANGED <<cur, all_moves, out>>
    /\ bfs' = NoFrame
    /\ UNCHANGED <<ioVars, exc, start, cnt_oob, locked, i, ida, workerVars, pdbVars, tp>>

(***************************************************************************)
(* solve_5x5: the parallel dispatcher                                      *)
(***************************************************************************)
\* "threads.emplace_back(...)" for t = spawned
SpawnWorker ==
    /\ pc = "stage1"
    /\ sz = 5
    /\ i >= PrefixTiles5
    /\ spawned < NumWorkers
    /\ wpc' = [wpc EXCEPT ![spawned] = "start"]
    /\ spawned' = spawned + 1
    /\ UNCHANGED <<ioVars, exc, out, ret, pc, start, cnt_oob, solveVars, ida, bfs, joined,
                   wida, results, found, pdbVars, tp>>

\* Worker t enters thread_ida_search / ida_star
WorkerStart(t) ==
    /\ wpc[t] = "start"
    /\ wida' = [wida EXCEPT ![t] =
                   ida_enter(cur, sz, EndgameDepth5, 2, EndgameNodeLimit5,
                             EndgameTimeLimit5, locked)]
    /\ wpc' = [wpc EXCEPT ![t] = "search"]
    /\ UNCHANGED <<ioVars, exc, out, ret, pc, start, cnt_oob, solveVars, ida, bfs, spawned,
                   joined, results, found, pdbVars, tp>>

\* Worker t runs one iteration of its ida_star's while(true)
WorkerIter(t) ==
    /\ wpc[t] = "search"
    /\ wida[t].pc = "loop"
    /\ \E late \in BOOLEAN :
          wida' = [wida EXCEPT ![t] = ida_loop_body(ida_loop_head(wida[t]), late)]
    /\ UNCHANGED <<ioVars, exc, out, ret, pc, start, cnt_oob, solveVars, ida, bfs, spawned,
                   joined, wpc, results, found, pdbVars, tp>>

\* Worker t: "results[t]=thread_ida_search(...); if(results[t].success) found=true;"
\* and the thread ends
WorkerFinish(t) ==
    /\ wpc[t] = "search"
    /\ wida[t].pc = "ret"
    /\ results' = [results EXCEPT ![t] = ida_result(wida[t])]
    /\ found' = (IF results'[t].success THEN TRUE ELSE found)
    /\ wida' = [wida EXCEPT ![t] = NoFrame]
    /\ wpc' = [wpc EXCEPT ![t] = "done"]
    /\ UNCHANGED <<ioVars, exc, out, ret, pc, start, cnt_oob, solveVars, ida, bfs, spawned,
                   joined, pdbVars, tp>>

\* Mutant of Joinable: join returns without waiting for the thread.
Joinable_always(t) == TRUE

\* th.join() returns once thread t has finished.
Joinable(t) == wpc[t] = "done"

\* "for(auto& th:threads) th.join();" for th = threads[joined]
JoinWorker ==
    /\ pc = "stage1"
    /\ sz = 5
    /\ spawned = NumWorkers
    /\ joined < NumWorkers
    /\ Joinable(joined)
    /\ joined' = joined + 1
    /\ UNCHANGED <<ioVars, exc, out, ret, pc, start, cnt_oob, solveVars, ida, bfs, spawned,
                   wpc, wida, results, found, pdbVars, tp>>

\* The successful results, in worker order
Successful == {t \in Workers : results[t].success}

\* After the joins: the first successful result ends the solve, none calls bibfs
DispatchReturn ==
    /\ pc = "stage1"
    /\ sz = 5
    /\ joined = NumWorkers
    /\ IF Successful # {}
       THEN LET t == CHOOSE x \in Successful : \A y \in Successful : x <= y
            IN  /\ lastres' = results[t]
                /\ Emit(results[t])
                /\ bfs' = bfs
       ELSE /\ bfs' = bibfs_enter(cur, 5, EndgameDepth5, 2, FallbackNodeLimit5, locked)
            /\ pc' = "fallback"
            /\ UNCHANGED <<cur, all_moves, out, ret, lastres>>
    /\ UNCHANGED <<ioVars, exc, start, cnt_oob, locked, i, ida, workerVars, pdbVars, tp>>

\* std::terminate: the process ends, and every thread with it.
Terminate ==
    /\ pc' = "trap"
    /\ ida' = NoFrame
    /\ bfs' = NoFrame
    /\ wpc' = [t \in Workers |-> "dead"]
    /\ wida' = [t \in Workers |-> NoFrame]
    /\ UNCHANGED <<ioVars, exc, out, ret, start, cnt_oob, solveVars, spawned, joined,
                   results, found, pdbVars, tp>>

\* A statement of the calling thread inside solve_puzzle's try block throws:
\* std::bad_alloc from an allocation, std::system_error from
\* "threads.emplace_back" or "th.join()".  Unwinding destroys the locals.  With
\* a created thread not yet joined the destructor of std::thread calls
\* std::terminate; otherwise a catch block of lines 436-442 returns -1.
Throw ==
    /\ pc \in {"call", "solve", "stage1", "stage1_search", "endgame_search",
                "fallback"}
    /\ IF joined < spawned
       THEN Terminate
       ELSE /\ Return(-1)
            /\ exc' = TRUE
            /\ ida' = NoFrame
            /\ bfs' = NoFrame
            /\ UNCHANGED <<ioVars, out, start, cnt_oob, solveVars, workerVars,
                           pdbVars, tp>>

\* An allocation of worker t's search throws: the exception leaves the
\* thread's function and std::terminate is called.
WorkerThrow(t) ==
    /\ wpc[t] \in {"start", "search"}
    /\ Terminate

Next ==
    \/ SolvePuzzleEntry
    \/ SolveEnter
    \/ Stage1Skip
    \/ Stage1Call
    \/ IdaLoopHead
    \/ IdaLoopBody
    \/ Stage1Return
    \/ EndgameCall
    \/ EndgameReturn
    \/ BfsStep
    \/ FallbackReturn
    \/ SpawnWorker
    \/ \E t \in Workers : WorkerStart(t)
    \/ \E t \in Workers : WorkerIter(t)
    \/ \E t \in Workers : WorkerFinish(t)
    \/ JoinWorker
    \/ DispatchReturn
    \/ Throw
    \/ \E t \in Workers : WorkerThrow(t)

Spec == Init /\ [][Next]_vars

(***************************************************************************)
(* build_pdb on its own: test_pdb_build and the stage controllers' calls   *)
(***************************************************************************)
\* int test_pdb_build(sz, ntiles): the values it can return; none when
\* build_pdb does not return.
test_pdb_build(n, ntiles) ==
    IF n * n = 0 THEN {}
    ELSE {Cardinality(DOMAIN build_pdb(n, ntiles, EmptyMap, TestPdbCap))}

PdbSizes == {0, 1, 2, 3, 4, 5}
PdbCaps == {0, TestPdbCap, PdbCap4, PdbCap5}

\* ntiles from 0 to one more than the number of cells
PdbCalls ==
    UNION {{[done |-> FALSE, sz |-> n, ntiles |-> k, max_depth |-> m, pdb |-> EmptyMap] :
               k \in 0..(n * n + 1), m \in PdbCaps} : n \in PdbSizes}

InitPdb ==
    /\ tp \in PdbCalls
    /\ arr = <<>>
    /\ sz = 0
    /\ env = FarEnv(0)
    /\ out = EmptyMap
    /\ exc = FALSE
    /\ ret = 0
    /\ pc = "idle"
    /\ start = NoFrame
    /\ cnt_oob = FALSE
    /\ cur = NoFrame
    /\ all_moves = <<>>
    /\ locked = {}
    /\ i = 0
    /\ lastres = NoResult
    /\ ida = NoFrame
    /\ bfs = NoFrame
    /\ spawned = 0
    /\ joined = 0
    /\ wpc = [t \in Workers |-> "idle"]
    /\ wida = [t \in Workers |-> NoFrame]
    /\ results = [t \in Workers |-> NoResult]
    /\ found = FALSE
    /\ pdb_4x4_stage1 = EmptyMap
    /\ pdb_5x5_stage1 = EmptyMap
    /\ pdb_5x5_stage2 = EmptyMap

\* A call build_pdb(sz, ntiles, pdb, max_depth) on an empty table.  A call
\* that writes outside "solved" traps (at the write, or in the allocator
\* afterwards), or goes on as if the write had not been made.
PdbBuild ==
    /\ pc = "idle"
    /\ ~tp.done
    /\ \/ /\ build_pdb_oob(tp.sz, tp.ntiles)
          /\ pc' = "trap"
          /\ tp' = tp
       \/ /\ tp.sz * tp.sz # 0
          /\ tp' = [tp EXCEPT
                       !.pdb = build_pdb(tp.sz, tp.ntiles, tp.pdb, tp.max_depth),
                       !.done = TRUE]
          /\ pc' = pc
    /\ UNCHANGED <<ioVars, exc, out, ret, start, cnt_oob, solveVars, ida, bfs,
                   workerVars, pdbVars>>

\* A call test_pdb_build(sz, ntiles): build_pdb with depth cap 12 on a local
\* table, whose size is returned.
TestPdbBuild ==
    /\ pc = "idle"
    /\ ~tp.done
    /\ tp.max_depth = TestPdbCap
    /\ \/ /\ build_pdb_oob(tp.sz, tp.ntiles)
          /\ pc' = "trap"
          /\ UNCHANGED <<tp, ret>>
       \/ /\ ret' \in test_pdb_build(tp.sz, tp.ntiles)
          /\ tp' = [tp EXCEPT
                       !.pdb = build_pdb(tp.sz, tp.ntiles, tp.pdb, tp.max_depth),
                       !.done = TRUE]
          /\ pc' = "done"
    /\ UNCHANGED <<ioVars, exc, out, start, cnt_oob, solveVars, ida, bfs,
                   workerVars, pdbVars>>

NextPdb ==
    \/ PdbBuild
    \/ TestPdbBuild

SpecPdb == InitPdb /\ [][NextPdb]_vars

(***************************************************************************)
(* ida_star and bibfs called on their own, with arguments from small sets  *)
(***************************************************************************)
SearchSizes == {2, 3, 4}

SearchBoards(n) ==
    Shuffled(n, IF n = 2 THEN 2 * MaxShuffleSearch ELSE MaxShuffleSearch)
        \cup (IF n = 4 THEN {Board4Endgame} ELSE {})

SearchInputs ==
    UNION {{[arr |-> b, sz |-> n] : b \in SearchBoards(n)} : n \in SearchSizes}

\* max_depth arguments: two small caps and the 4x4 endgame's
SearchDepths == {1, 2, EndgameDepth4}
\* node_limit arguments: two small budgets and the 4x4 endgame's
SearchNodeLimits == {1, 4, EndgameNodeLimit4}
\* locked arguments: cells whose goal tile is in place in the start board
SearchMasks(st) ==
    {m \in {{}, {0}, {0, 1}} : \A c \in m : st.tiles[c + 1] = c + 1}

InitSearch ==
    /\ \E in \in SearchInputs : arr = in.arr /\ sz = in.sz /\ env = FarEnv(in.sz)
    /\ out = EmptyMap
    /\ exc = FALSE
    /\ ret = 0
    /\ pc = "search_idle"
    /\ start = PuzzleState(arr, sz, Indeterminate)
    /\ cnt_oob = FALSE
    /\ cur = NoFrame
    /\ all_moves = <<>>
    /\ locked = {}
    /\ i = 0
    /\ lastres = NoResult
    /\ ida = NoFrame
    /\ bfs = NoFrame
    /\ spawned = 0
    /\ joined = 0
    /\ wpc = [t \in Workers |-> "idle"]
    /\ wida = [t \in Workers |-> NoFrame]
    /\ results = [t \in Workers |-> NoResult]
    /\ found = FALSE
    /\ pdb_4x4_stage1 = EmptyMap
    /\ pdb_5x5_stage1 = EmptyMap
    /\ pdb_5x5_stage2 = EmptyMap
    /\ tp = NoPdbCall

\* A call ida_star(start, sz, max_depth, 2, node_limit, time_limit_ms, locked)
IdaCall ==
    /\ pc = "search_idle"
    /\ \E D \in SearchDepths, NL \in SearchNodeLimits, m \in SearchMasks(start) :
          ida' = ida_enter(start, sz, D, 2, NL, EndgameTimeLimit4, m)
    /\ pc' = "ida_call"
    /\ UNCHANGED <<ioVars, exc, out, ret, start, cnt_oob, solveVars, bfs, workerVars,
                   pdbVars, tp>>

\* The call of ida_star returns
IdaReturn ==
    /\ pc = "ida_call"
    /\ ida.pc = "ret"
    /\ lastres' = ida_result(ida)
    /\ ida' = NoFrame
    /\ pc' = "search_done"
    /\ UNCHANGED <<ioVars, exc, out, ret, start, cnt_oob, cur, all_moves, locked, i, bfs,
                   workerVars, pdbVars, tp>>

\* A call bibfs(start, sz, max_depth, 2, node_limit, locked)
BfsCall ==
    /\ pc = "search_idle"
    /\ \E D \in SearchDepths, NL \in SearchNodeLimits, m \in SearchMasks(start) :
          bfs' = bibfs_enter(start, sz, D, 2, NL, m)
    /\ pc' = "bfs_call"
    /\ UNCHANGED <<ioVars, exc, out, ret, start, cnt_oob, solveVars, ida, workerVars,
                   pdbVars, tp>>

\* The call of bibfs returns
BfsReturn ==
    /\ pc = "bfs_call"
    /\ bfs.pc = "ret"
    /\ lastres' = bfs.res
    /\ bfs' = NoFrame
    /\ pc' = "search_done"
    /\ UNCHANGED <<ioVars, exc, out, ret, start, cnt_oob, cur, all_moves, locked, i, ida,
                   workerVars, pdbVars, tp>>

NextSearch ==
    \/ IdaCall
    \/ IdaLoopHead
    \/ IdaLoopBody
    \/ IdaReturn
    \/ BfsCall
    \/ BfsStep
    \/ BfsReturn

SpecSearch == InitSearch /\ [][NextSearch]_vars

(***************************************************************************)
(* apply_moves on random walks, and validate_solution, called on their own *)
(***************************************************************************)
\* The solved board with the contents of cells a and b exchanged.
SolvedSwapped(n, a, b) == SwapCells(Solved(n), a, b)

\* 4x4, solvable: blank in cell 0, tile 1 in cell 1, tile 2 in the last cell.
Board4Cycle == <<0, 1, 3, 4, 5, 6, 7, 8, 9, 10, 11, 12, 13, 14, 15, 2>>

WalkSizes == {2, 3, 4}

\* Valid boards: the solved board, boards next to it, a board with two tiles
\* exchanged, a board with the blank and tile 1 exchanged, and the 4x4 board above.
WalkBoards(n) ==
    Shuffled(n, 1)
        \cup {SolvedSwapped(n, 0, 1), SolvedSwapped(n, 0, n * n - 1)}
        \cup (IF n = 4 THEN {Board4Cycle} ELSE {})

\* Arrays without a 0 byte: the solved board with tile 1 in place of the blank.
NoBlankBoards(n) == {[Solved(n) EXCEPT ![n * n] = 1]}

\* The boards above, the arrays without a blank, the 1x1 board and size 0.
WalkInputs ==
    UNION {{[arr |-> b, sz |-> n] : b \in WalkBoards(n) \cup NoBlankBoards(n)} :
              n \in WalkSizes}
        \cup {[arr |-> <<0>>, sz |-> 1], [arr |-> <<>>, sz |-> 0]}

\* The bytes of a move list: the values of the board's cells, the first value
\* past them and the largest byte.
MoveBytes(n) == (0..(n * n)) \cup {255}

\* The move lists handed to validate_solution with the array a: one byte, and
\* for an array with a blank two bytes as well.
TileSeqs(a, n) ==
    {<<x>> : x \in MoveBytes(n)}
        \cup (IF \E c \in 1..(n * n) : a[c] = 0
              THEN {<<x, y>> : x \in MoveBytes(n), y \in MoveBytes(n)}
              ELSE {})

InitMoves ==
    /\ \E in \in WalkInputs : arr = in.arr /\ sz = in.sz /\ env = FarEnv(in.sz)
    /\ out = EmptyMap
    /\ exc = FALSE
    /\ ret = 0
    /\ pc = "walk"
    /\ start = PuzzleState(arr, sz, Indeterminate)
    /\ cnt_oob = FALSE
    /\ cur = start
    /\ all_moves = <<>>
    /\ locked = {}
    /\ i = 0
    /\ lastres = NoResult
    /\ ida = NoFrame
    /\ bfs = NoFrame
    /\ spawned = 0
    /\ joined = 0
    /\ wpc = [t \in Workers |-> "idle"]
    /\ wida = [t \in Workers |-> NoFrame]
    /\ results = [t \in Workers |-> NoResult]
    /\ found = FALSE
    /\ pdb_4x4_stage1 = EmptyMap
    /\ pdb_5x5_stage1 = EmptyMap
    /\ pdb_5x5_stage2 = EmptyMap
    /\ tp = NoPdbCall

\* One step of a random walk on a board with a blank: a cell ni next to the
\* blank is chosen as in shuffle_state, its tile is appended to the move list
\* and apply_moves performs the move on cur.
WalkStep ==
    /\ pc = "walk"
    /\ \E c \in 1..(sz * sz) : arr[c] = 0
    /\ Len(all_moves) < MaxWalk
    /\ \E ni \in BlankNeighbours(sz, cur.empty) :
          LET mv == cur.tiles[ni + 1]
          IN  /\ cur' = apply_moves(cur, <<mv>>)
              /\ all_moves' = Append(all_moves, mv)
    /\ UNCHANGED <<ioVars, exc, out, ret, pc, start, cnt_oob, locked, i, lastres, ida,
                   bfs, workerVars, pdbVars, tp>>

\* A call validate_solution(arr, sz, moves, n_moves) on the array arr; the
\* moves handed over are kept in all_moves.  A call whose swaps leave the
\* vector returns what the bytes it met make it return, or traps.
ValidateCall ==
    /\ pc = "walk"
    /\ all_moves = <<>>
    /\ \E moves \in TileSeqs(arr, sz) :
          /\ all_moves' = moves
          /\ \/ /\ ret' \in validate_solution(arr, sz, moves, Len(moves))
                /\ pc' = "validated"
             \/ /\ validate_solution_ub(arr, sz, moves, Len(moves))
                /\ pc' = "trap"
                /\ ret' = ret
    /\ UNCHANGED <<ioVars, exc, out, start, cnt_oob, cur, locked, i, lastres, ida, bfs,
                   workerVars, pdbVars, tp>>

\* A call shuffle_state(arr, sz, 1)
ShuffleCall ==
    /\ pc = "walk"
    /\ all_moves = <<>>
    /\ \/ /\ arr' \in ShuffleOnce(arr, sz)
          /\ pc' = "shuffled"
       \/ /\ ShuffleOnce_ub(arr, sz)
          /\ pc' = "trap"
          /\ arr' = arr
    /\ UNCHANGED <<sz, env, exc, out, ret, start, cnt_oob, solveVars, ida, bfs,
                   workerVars, pdbVars, tp>>

NextMoves ==
    \/ WalkStep
    \/ ValidateCall
    \/ ShuffleCall

SpecMoves == InitMoves /\ [][NextMoves]_vars

(***************************************************************************)
(* Properties                                                              *)
(***************************************************************************)
\* The bytes of moves_out cells 0..n-1.
OutSeq(n) == [k \in 1..n |-> out[k - 1]]

Returned == pc = "done"

\* C1: whenever solve_puzzle returns N > 0, the N moves it wrote, replayed in
\* order from the input board, end in the solved board (validate_solution = 1).
C1_EmittedMovesSolve ==
    (Returned /\ ret > 0) =>
        /\ (0..(ret - 1)) \subseteq DOMAIN out
        /\ validate_solution(arr, sz, OutSeq(ret), ret) = {1}

\* C1 witness: a 5x5 call returned moves found by the BFS fallback, after
\* stage-1 locking and after all four workers had failed.
C1_Witness ==
    /\ Returned /\ ret > 0 /\ sz = 5
    /\ joined = NumWorkers /\ Successful = {}
    /\ locked # {}

RECURSIVE LegalReplay(_, _, _)
\* Every move of the sequence names a tile orthogonally adjacent to the blank
\* of the layout it is applied to (which has a blank).
LegalReplay(t, n, moves) ==
    IF moves = <<>> THEN TRUE
    ELSE
        LET e == FindEmpty(t, n * n, -1)
            from == FindTile(t, n * n, Head(moves))
        IN  /\ e # -1
            /\ Head(moves) # 0
            /\ from \in BlankNeighbours(n, e)
            /\ LegalReplay(SwapCells(t, e, from), n, Tail(moves))

\* C2: every emitted move is legal where it is applied: replaying from the
\* input board, the k-th move's tile is adjacent to the blank of the board
\* reached after the first k-1 moves.
C2_EmittedMovesLegal ==
    (Returned /\ ret > 0) =>
        /\ (0..(ret - 1)) \subseteq DOMAIN out
        /\ LegalReplay(arr, sz, OutSeq(ret))

\* C2 witness: a 4x4 call returned the seven moves its stage-1 search for
\* tile 3 found in its second iteration.
C2_Witness ==
    /\ Returned /\ ret = 7 /\ sz = 4
    /\ arr = Board4Stage1
    /\ Cardinality(locked) = PrefixTiles4

\* C3 (as claimed): for every size outside {4, 5}, solve_puzzle returns -1.
C3_UnsupportedSizeReturnsMinusOne ==
    (Returned /\ sz \notin {4, 5}) => ret = -1

\* The input holds each value 0..n*n-1 exactly once.
IsPermutation(a, n) ==
    \A v \in 0..(n * n - 1) : Cardinality({c \in 1..(n * n) : a[c] = v}) = 1

\* C4 (as claimed): an input of size 4 or 5 that is not a permutation of
\* 0..size*size-1 makes solve_puzzle return -1 without any search, and
\* validate_input never indexes cnt outside 0..size*size-1.
C4_InvalidInputRejected ==
    (pc # "call" /\ sz \in {4, 5} /\ ~IsPermutation(arr, sz)) =>
        /\ Returned /\ ret = -1
        /\ ida = NoFrame /\ bfs = NoFrame /\ spawned = 0
        /\ ~cnt_oob

\* C5 (as claimed): the output buffer is modified only by a call that returns
\* N > 0, which writes exactly cells 0..N-1; a call returning 0 or -1 leaves
\* it untouched, and 0 is returned only for an already-solved input.
C5_OutputFrame ==
    /\ (Returned /\ ret > 0) => DOMAIN out = 0..(ret - 1)
    /\ ~(Returned /\ ret > 0) => DOMAIN out = {}
    /\ Returned => (ret = -1 \/ ret >= 0)
    /\ (Returned /\ ret = 0) => arr = Solved(sz)

\* C6: a 4x4 board one or two legal moves from solved is solved in exactly
\* that many moves; [1..14,0,15] gives the single move 15 and
\* [1..13,0,14,15] gives the moves 14, 15.  (A call in which an allocation
\* failed returns -1 from a catch block; the claim is about the calls that
\* ran to their end.)
C6_NearSolvedShortest ==
    (Returned /\ sz = 4 /\ ~exc) =>
        /\ arr \in ShuffleOnce(Solved(4), 4) =>
              /\ ret = 1 /\ DOMAIN out = 0..0
              /\ validate_solution(arr, 4, OutSeq(1), 1) = {1}
        /\ arr \in (Shuffled(4, 2) \ Shuffled(4, 1)) =>
              /\ ret = 2 /\ DOMAIN out = 0..1
              /\ validate_solution(arr, 4, OutSeq(2), 2) = {1}
        /\ arr = <<1, 2, 3, 4, 5, 6, 7, 8, 9, 10, 11, 12, 13, 14, 0, 15>> =>
              /\ ret = 1 /\ DOMAIN out = 0..0 /\ OutSeq(1) = <<15>>
        /\ arr = <<1, 2, 3, 4, 5, 6, 7, 8, 9, 10, 11, 12, 13, 0, 14, 15>> =>
              /\ ret = 2 /\ DOMAIN out = 0..1 /\ OutSeq(2) = <<14, 15>>

\* C6 witness: the two-move scenario board has been solved.
C6_Witness ==
    /\ Returned
    /\ arr = <<1, 2, 3, 4, 5, 6, 7, 8, 9, 10, 11, 12, 13, 0, 14, 15>>
    /\ ret = 2

\* The blank of layout t is off the mask and the mask's cells hold what they
\* hold in layout t0.
RespectsMask(t, t0, n, mask) ==
    /\ FindEmpty(t, n * n, -1) \notin mask
    /\ \A c \in mask : t[c + 1] = t0[c + 1]

\* Every state a running ida_star frame has generated respects its mask.
FrameRespectsMask(S) ==
    S.pc \in {"loop", "dfs", "ret"} =>
        /\ \A s \in S.gen :
              /\ s.empty \notin S.locked
              /\ RespectsMask(s.tiles, S.start.tiles, S.sz, S.locked)
        /\ \A t \in S.TT : RespectsMask(t, S.start.tiles, S.sz, S.locked)

\* C7: in every state generated by ida_star and by bibfs under a LockedMask the
\* blank is off the mask, so every locked cell holds what it held in the
\* start board.
C7_BlankAvoidsLocked ==
    /\ FrameRespectsMask(ida)
    /\ \A t \in Workers : FrameRespectsMask(wida[t])
    /\ bfs.pc \in {"loop", "ret"} =>
          /\ \A t \in bfs.Vis : RespectsMask(t, bfs.start.tiles, bfs.sz, bfs.locked)
          /\ \A k \in 1..Len(bfs.Q) :
                /\ bfs.Q[k].state.empty \notin bfs.locked
                /\ RespectsMask(bfs.Q[k].state.tiles, bfs.start.tiles, bfs.sz,
                                bfs.locked)

\* C7 witness: a search under a non-empty mask expanded a state whose blank
\* was next to a locked cell, and bibfs did so too.
C7_Witness ==
    /\ bfs.pc = "ret" /\ bfs.locked # {}
    /\ \E t \in bfs.Vis :
          BlankNeighbours(bfs.sz, FindEmpty(t, bfs.sz * bfs.sz, -1)) \cap bfs.locked # {}
    /\ lastres.success = FALSE

\* C8: the LockedMask only grows, and every cell in it holds its goal tile in
\* the current board, from the step that locks it through every later batch
\* of applied moves.
C8_LockedCellsHoldGoalTiles ==
    [][/\ locked \subseteq locked'
       /\ \A c \in locked' : cur'.tiles[c + 1] = c + 1]_vars

\* C8 witness: a cell was locked after a successful stage-1 search, on top of
\* cells locked because their tile was already in place.
C8_Witness ==
    /\ pc = "stage1" /\ lastres.success /\ Len(all_moves) > 0
    /\ Cardinality(locked) >= 2
    /\ (i - 1) \in locked

\* Tiles 1..k sit in cells 0..k-1 of layout t.
PrefixPlaced(t, k) == \A c \in 0..(k - 1) : t[c + 1] = c + 1

\* C9 (as claimed): a stage-1 search reports success at a state exactly when
\* the stage's prefix tiles are in their goal cells; here every state it has
\* goal-tested without reporting success (the states put in TT) has some
\* prefix tile out of place, and the state it reports has them all in place.
C9_Stage1GoalIsPrefixPlaced ==
    (pc = "stage1_search" /\ ida.pc \in {"loop", "ret"}) =>
        /\ \A t \in ida.TT : ~PrefixPlaced(t, PrefixTiles(sz))
        /\ ida.found =>
              PrefixPlaced(apply_moves(ida.start, ida.path).tiles, PrefixTiles(sz))

RECURSIVE PrefixReach(_, _, _)
\* The board layouts reachable from the solved board by at most d legal blank
\* moves that keep tiles 1..ntiles in their goal cells after every move.
PrefixReach(n, ntiles, d) ==
    IF d = 0 THEN {Solved(n)}
    ELSE LET R == PrefixReach(n, ntiles, d - 1)
         IN  R \cup {t \in UNION {ShuffleOnce(r, n) : r \in R} : PrefixPlaced(t, ntiles)}

\* C10 (as claimed): build_pdb's table maps the solved board to 0, and every
\* key K is a board reachable from the solved board by exactly pdb[K] legal
\* moves (and no fewer) that keep tiles 1..ntiles in place, pdb[K] <= max_depth.
C10_PdbDepthsAreBfsDepths ==
    tp.done /\ tp.sz > 0 =>
        /\ Solved(tp.sz) \in DOMAIN tp.pdb
        /\ tp.pdb[Solved(tp.sz)] = 0
        /\ \A K \in DOMAIN tp.pdb :
              /\ tp.pdb[K] >= 0 /\ tp.pdb[K] <= tp.max_depth
              /\ K \in PrefixReach(tp.sz, tp.ntiles, tp.pdb[K])
              /\ tp.pdb[K] > 0 => K \notin PrefixReach(tp.sz, tp.ntiles, tp.pdb[K] - 1)

\* C11 (as claimed): the failure tag ida_star returns names the budget that
\* stopped it: node_limit when an iteration's node counter exceeded
\* node_limit, timeout when the elapsed time exceeded time_limit_ms (the only
\* exit left for a search that was cut off somewhere and is within its node
\* budget), and empty on success.
C11_FailureTagNamesBudget ==
    ida.pc = "ret" =>
        /\ ida.found => ida.fail_reason = ""
        /\ (~ida.found /\ ida.nodes > ida.node_limit) => ida.fail_reason = "node_limit"
        /\ (~ida.found /\ ida.nodes <= ida.node_limit /\ ida.cut # {}) =>
              ida.fail_reason = "timeout"

\* C12 (as claimed): ida_star never runs an iteration whose threshold exceeds
\* its max_depth argument and never returns more than max_depth moves.
C12_DepthCapRespected ==
    /\ ida.pc = "dfs" => ida.threshold <= ida.max_depth
    /\ (ida.pc = "ret" /\ ida.found) => Len(ida.path) <= ida.max_depth

\* C13 (as claimed): in stage 2 with an empty mask, a search of a solvable
\* board that hit neither its node budget nor its time budget ends in success.
C13_SymmetryPruningComplete ==
    (/\ ida.pc = "ret" /\ ida.stage = 2 /\ ida.locked = {}
     /\ ida.start.tiles \in SearchBoards(ida.sz)
     /\ ida.nodes <= ida.node_limit
     /\ ida.fail_reason # "timeout") => ida.found

\* The least element of a non-empty set of integers.
MinSet(X) == CHOOSE x \in X : \A y \in X : x <= y

\* C14: when an iteration of ida_star ends without a solution and without
\* failure, the threshold of the next iteration is the least f = g + h among
\* the nodes the ended iteration cut off for f > threshold, hence strictly
\* greater than the ended iteration's threshold; and every iteration starts
\* with an empty transposition table.
C14_ThresholdProgression ==
    [][/\ (ida.pc = "dfs" /\ ida'.pc = "loop") =>
             /\ ida'.cut # {}
             /\ ida'.threshold = MinSet(ida'.cut)
             /\ ida'.threshold > ida.threshold
       /\ (ida.pc = "loop" /\ ida'.pc = "dfs") =>
             /\ ida'.TT = {}
             /\ ida'.threshold = ida.threshold]_vars

\* C14 witness: a second iteration has started, with a larger threshold than
\* the first and an empty table, after a first iteration that expanded states.
C14_Witness ==
    /\ ida.pc = "dfs" /\ ida.iter = 2
    /\ ida.TT = {}
    /\ ida.threshold = manhattan(ida.start) + 2
    /\ ida.start.tiles = Board4Endgame

RECURSIVE BlankAvoids(_, _, _, _)
\* Replaying the moves from layout t, the blank is off the mask after every move.
BlankAvoids(t, n, moves, mask) ==
    IF moves = <<>> THEN TRUE
    ELSE
        LET from == FindTile(t, n * n, Head(moves))
        IN  /\ from \notin mask
            /\ BlankAvoids(SwapCells(t, FindEmpty(t, n * n, -1), from), n,
                           Tail(moves), mask)

RECURSIVE MaskReach(_, _, _, _)
\* The layouts reachable from t by at most d legal moves whose blank stays
\* off the mask.
MaskReach(t, n, mask, d) ==
    IF d <= 0 THEN {t}
    ELSE LET R == MaskReach(t, n, mask, d - 1)
         IN  R \cup UNION {{SwapCells(r, FindEmpty(r, n * n, -1), ni) :
                               ni \in BlankNeighbours(n, FindEmpty(r, n * n, -1)) \ mask} :
                           r \in R}

\* C15: a successful bibfs returns a legal move sequence from the start board
\* to the solved board whose blank never enters a locked cell, of length at
\* most max_depth, and no shorter such sequence exists; an unsuccessful one
\* returns no moves and the tag failed, after the queue emptied or node_limit
\* states were dequeued.
C15_BfsResult ==
    bfs.pc = "ret" =>
        LET res == bfs.res
            t0 == bfs.start.tiles
        IN  /\ res.success =>
                  /\ LegalReplay(t0, bfs.sz, res.moves)
                  /\ apply_moves(bfs.start, res.moves).tiles = Solved(bfs.sz)
                  /\ BlankAvoids(t0, bfs.sz, res.moves, bfs.locked)
                  /\ Len(res.moves) <= bfs.max_depth
                  /\ res.length = Len(res.moves)
                  /\ res.fail_reason = ""
                  /\ Len(res.moves) > 0 =>
                        Solved(bfs.sz) \notin
                            MaskReach(t0, bfs.sz, bfs.locked, Len(res.moves) - 1)
            /\ ~res.success =>
                  /\ res.moves = <<>> /\ res.length = 0
                  /\ res.fail_reason = "failed"
                  /\ bfs.Q = <<>> \/ bfs.nodes >= bfs.node_limit

\* C15 witness: under a two-cell mask bibfs returned a solution exactly as
\* long as its depth cap allows, with two moves.
C15_Witness ==
    /\ bfs.pc = "ret" /\ bfs.res.success
    /\ bfs.locked = {0, 1}
    /\ Len(bfs.res.moves) = bfs.max_depth
    /\ Len(bfs.res.moves) = 2

\* C16: in the 5x5 endgame, under every interleaving of the four workers, the
\* dispatcher leaves the join loop (to emit a result or to call bibfs) only
\* when all four workers have terminated; a step that changes a result slot
\* is the finishing step of that slot's worker and changes no other slot;
\* the moves appended are those of the lowest-indexed successful worker; and
\* bibfs is called only when no worker succeeded.
C16_DispatcherJoinsThenSelects ==
    [][/\ (pc = "stage1" /\ sz = 5 /\ pc' \in {"done", "fallback"} /\ ~exc') =>
             /\ \A t \in Workers : wpc[t] = "done"
             /\ results' = results
             /\ pc' = "done" =>
                   /\ Successful # {}
                   /\ lastres' = results[MinSet(Successful)]
                   /\ all_moves' = all_moves \o results[MinSet(Successful)].moves
             /\ pc' = "fallback" =>
                   /\ Successful = {}
                   /\ bfs.pc = "idle" /\ bfs'.pc = "loop"
       /\ \A t \in Workers :
             results'[t] # results[t] =>
                 /\ wpc[t] = "search" /\ wpc'[t] = "done"
                 /\ \A u \in Workers \ {t} : results'[u] = results[u]
       /\ (sz = 5 /\ bfs.pc = "idle" /\ bfs'.pc # "idle") =>
             /\ joined = NumWorkers
             /\ Successful = {}]_vars

\* C16 witness: the dispatcher returned the moves of a later worker after
\* worker 0 had timed out.
C16_Witness ==
    /\ Returned /\ sz = 5 /\ ret > 0
    /\ joined = NumWorkers
    /\ results[0].fail_reason = "timeout"
    /\ Successful # {}
    /\ lastres = results[MinSet(Successful)]
    /\ MinSet(Successful) > 0

\* C17: when a stage-1 search fails the stage controller returns -1 at once:
\* the step after the failed search is the return, nothing is written,
\* searched or spawned by it or after it; and bibfs is started only after the
\* endgame search (4x4) or all four endgame workers (5x5) have failed.
C17_Stage1FailureAborts ==
    [][/\ (pc = "stage1_search" /\ ida.pc = "ret" /\ ~ida.found) =>
             /\ pc' = "done" /\ ret' = -1
             /\ out' = out /\ all_moves' = all_moves /\ i' = i
             /\ ida' = NoFrame /\ bfs' = NoFrame /\ spawned' = 0
       /\ pc = "done" => UNCHANGED vars
       /\ (bfs.pc = "idle" /\ bfs'.pc # "idle") =>
             /\ i >= PrefixTiles(sz)
             /\ sz = 4 => (pc = "endgame_search" /\ ida.pc = "ret" /\ ~ida.found)
             /\ sz = 5 => (joined = NumWorkers /\ Successful = {})]_vars

\* C17 witness: the search for a prefix tile failed and the call returned -1
\* with the next prefix tile still out of place and no endgame or fallback run.
C17_Witness ==
    /\ Returned /\ ret = -1 /\ ~exc
    /\ ~lastres.success /\ lastres.fail_reason # ""
    /\ i + 1 < PrefixTiles(sz)
    /\ cur.tiles[i + 2] # i + 2
    /\ bfs = NoFrame /\ spawned = 0 /\ ida = NoFrame

\* The sequence s back to front.
Reverse(s) == [k \in 1..Len(s) |-> s[Len(s) + 1 - k]]

\* After each of the first k moves of the list, applied from st by
\* apply_moves, the blank index is the cell that holds 0.
BlankIndexTracks(st, moves) ==
    \A k \in 0..Len(moves) :
        LET s == apply_moves(st, SubSeq(moves, 1, k))
        IN  s.empty = FindEmpty(s.tiles, s.size * s.size, -1)

\* C18: for a valid board B and a list M of legal tile moves that apply_moves
\* takes from B to B', apply_moves with M reversed takes B' back to B, and
\* after every single move, forwards and backwards, the blank index is the
\* position of 0.
C18_ReverseWalkRoundTrip ==
    (pc = "walk" /\ sz > 0 /\ IsPermutation(arr, sz)) =>
        /\ LegalReplay(arr, sz, all_moves)
        /\ apply_moves(start, all_moves) = cur
        /\ apply_moves(cur, Reverse(all_moves)) = start
        /\ BlankIndexTracks(start, all_moves)
        /\ BlankIndexTracks(cur, Reverse(all_moves))

\* C18 witness: a walk of full length from a board other than the solved one
\* ended in a different board.
C18_Witness ==
    /\ pc = "walk" /\ Len(all_moves) = MaxWalk
    /\ arr # Solved(sz)
    /\ cur.tiles # arr
    /\ sz = 4

\* C19: once the stage controller has built its pattern database, no key of
\* the table is a valid board (each value 0..size*size-1 exactly once), so
\* pdb_heuristic in stage 1 is the Manhattan distance on the start board and
\* on every board a stage-1 search generates, and a stage-1 search ends in
\* success only on a board of Manhattan distance 0.
C19_PdbNeverHitsValidBoard ==
    (pc \in {"stage1", "stage1_search", "endgame_search", "fallback", "done"}
        /\ cur # NoFrame) =>
        /\ sz = 4 => pdb_4x4_stage1 # EmptyMap
        /\ sz = 5 => pdb_5x5_stage1 # EmptyMap
        /\ \A K \in DOMAIN pdb_4x4_stage1 : ~IsPermutation(K, 4)
        /\ \A K \in DOMAIN pdb_5x5_stage1 : ~IsPermutation(K, 5)
        /\ (pc = "stage1_search" /\ ida.pc \in {"loop", "dfs", "ret"}) =>
              /\ pdb_heuristic(ida.start, 1, sz) = manhattan(ida.start)
              /\ \A st \in ida.gen : pdb_heuristic(st, 1, sz) = manhattan(st)
              /\ ida.found => manhattan(apply_moves(ida.start, ida.path)) = 0

\* C19 witness: a 4x4 stage-1 search has succeeded after generating boards,
\* with the pattern database built.
C19_Witness ==
    /\ pc = "stage1_search" /\ sz = 4
    /\ ida.pc = "ret" /\ ida.found /\ ida.gen # {}
    /\ pdb_4x4_stage1 # EmptyMap

\* C20 (as claimed): validate_solution returns 1 only for move lists whose
\* every move is legal where it is applied.
C20_ValidateRejectsIllegalMoves ==
    (pc = "validated" /\ ret = 1) => LegalReplay(arr, sz, all_moves)

====
